---- MODULE Spec2Model ----
(***************************************************************************)
(* A model of lightningcss' animation property handler                     *)
(* (src/properties/animation.rs): the AnimationHandler accumulator with    *)
(* its flush procedure, and the parser and printer of the `animation`      *)
(* shorthand.                                                              *)
(*                                                                         *)
(* In the handler a value is the text of its CSS token ("1s", "foo"), a    *)
(* vendor prefix set is a set of prefix names, and a declaration list is a *)
(* sequence of Property records.  In the parser and the printer a token is *)
(* a kind and a text, and a value is a variant and the text it carries.    *)
(***************************************************************************)
EXTENDS Naturals, Sequences, FiniteSets, TLC

(***************************************************************************)
(* Bounds of the model.                                                    *)
(***************************************************************************)
\* number of handle_property / finalize calls made after the preloaded prefix
MaxSteps == 2

(***************************************************************************)
(* Vendor prefixes and properties.                                         *)
(***************************************************************************)
\* the bits of the VendorPrefix set the model uses
VendorPrefix == {"none", "webkit"}

\* the fields of AnimationHandler that hold a slot, in declaration order
SlotOrder ==
  << "names", "durations", "timing_functions", "iteration_counts",
     "directions", "play_states", "delays", "fill_modes" >>

SlotNames == {SlotOrder[i] : i \in 1..Len(SlotOrder)}

\* the Property variant of each slot
PropertyOf(slot) ==
  CASE slot = "names" -> "AnimationName"
    [] slot = "durations" -> "AnimationDuration"
    [] slot = "timing_functions" -> "AnimationTimingFunction"
    [] slot = "iteration_counts" -> "AnimationIterationCount"
    [] slot = "directions" -> "AnimationDirection"
    [] slot = "play_states" -> "AnimationPlayState"
    [] slot = "delays" -> "AnimationDelay"
    [] slot = "fill_modes" -> "AnimationFillMode"

LonghandProps == {PropertyOf(s) : s \in SlotNames}

\* the slot a longhand Property variant is stored in
SlotOf(property_id) == CHOOSE s \in SlotNames : PropertyOf(s) = property_id

\* the field of an Animation that a slot collects
FieldOf(a, slot) ==
  CASE slot = "names" -> a.name
    [] slot = "durations" -> a.duration
    [] slot = "timing_functions" -> a.timing_function
    [] slot = "iteration_counts" -> a.iteration_count
    [] slot = "directions" -> a.direction
    [] slot = "play_states" -> a.play_state
    [] slot = "delays" -> a.delay
    [] slot = "fill_modes" -> a.fill_mode

\* Property::AnimationName(val, vp) and the seven other longhands
Longhand(property_id, val, vp) ==
  [prop |-> property_id, val |-> val, list |-> << >>, vp |-> vp, id |-> ""]

\* Property::Animation(list, vp)
Shorthand(list, vp) ==
  [prop |-> "Animation", val |-> << >>, list |-> list, vp |-> vp, id |-> ""]

\* Property::Unparsed(UnparsedProperty { property_id, value })
Unparsed(id, vp, tok) ==
  [prop |-> "Unparsed", val |-> <<tok>>, list |-> << >>, vp |-> vp, id |-> id]

\* the PropertyId variants of the animation family
is_animation_property(property_id) ==
  property_id \in LonghandProps \cup {"Animation"}

(***************************************************************************)
(* The accumulator.  A slot is Option<(SmallVec<value>, VendorPrefix)>.    *)
(***************************************************************************)
NoneSlot == [set |-> FALSE, val |-> << >>, vp |-> {}]

SomeSlot(val, vp) == [set |-> TRUE, val |-> val, vp |-> vp]

NoTargets == [some |-> FALSE, prefixes |-> {}]

\* AnimationHandler::new(targets)
new(targets) ==
  [targets |-> targets,
   names |-> NoneSlot, durations |-> NoneSlot, timing_functions |-> NoneSlot,
   iteration_counts |-> NoneSlot, directions |-> NoneSlot,
   play_states |-> NoneSlot, delays |-> NoneSlot, fill_modes |-> NoneSlot,
   has_any |-> FALSE]

\* Feature::prefixes_for(targets): the prefixes the configured browsers need.
\* The table is not part of the handler; the targets carry the answer.
prefixes_for(feature, targets) == targets.prefixes

\* A call state: the handler, the declaration list it writes to, and a log
\* of the calls of flush made during the current call (the handler as flush
\* found it and left it, and the part of dest the flush wrote).
CallState(h, d) == [self |-> h, dest |-> d, log |-> << >>, ret |-> TRUE]

\* *names_vp & *durations_vp & ... & *fill_modes_vp
Intersection(taken) ==
  {p \in VendorPrefix : \A s \in SlotNames : p \in taken[s].vp}

\* the guard of the shorthand without the test of the intersection
CanMergeAnyPrefixes(taken) ==
  /\ \A s \in SlotNames : taken[s].set
  /\ \A s \in SlotNames : Len(taken[s].val) = Len(taken.names.val)

\* the test that guards the shorthand: the `if let` of eight Some, a
\* non-empty intersection, and every vector as long as names
CanMerge(taken) ==
  /\ \A s \in SlotNames : taken[s].set
  /\ Intersection(taken) # {}
  /\ \A s \in SlotNames : Len(taken[s].val) = Len(taken.names.val)

\* izip!(names.drain(..), ..., fill_modes.drain(..)).map(|..| Animation {..}).collect()
Animations(taken) ==
  [i \in 1..Len(taken.names.val) |->
    [name |-> taken.names.val[i],
     duration |-> taken.durations.val[i],
     timing_function |-> taken.timing_functions.val[i],
     iteration_count |-> taken.iteration_counts.val[i],
     direction |-> taken.directions.val[i],
     play_state |-> taken.play_states.val[i],
     delay |-> taken.delays.val[i],
     fill_mode |-> taken.fill_modes.val[i]]]

\* the prefix a declaration of `feature` is pushed with: the one given, or
\* the targets' prefixes when it contains VendorPrefix::None and targets are set
OutPrefix(vp, feature, targets) ==
  IF "none" \in vp /\ targets.some
  THEN prefixes_for(feature, targets)
  ELSE vp

\* Rest without the removal of the intersection
RestKeepsIntersection(taken, s) ==
  IF CanMerge(taken)
  THEN SomeSlot(<< >>, taken[s].vp)
  ELSE taken[s]

\* Rest with the drain and the removal done whether or not a shorthand is pushed
RestAlwaysDrained(taken, s) ==
  SomeSlot(<< >>, taken[s].vp \ Intersection(taken))

\* what is left of a slot when the shorthand has been pushed: its vector
\* drained and the intersection removed from its prefixes; the slot itself
\* when no shorthand was pushed
Rest(taken, s) ==
  IF CanMerge(taken)
  THEN SomeSlot(<< >>, taken[s].vp \ Intersection(taken))
  ELSE taken[s]

\* prop!($var, $property): the longhand of a slot whose prefixes are not empty
prop(slot, property, targets) ==
  IF slot.set /\ slot.vp # {}
  THEN << Longhand(property, slot.val, OutPrefix(slot.vp, property, targets)) >>
  ELSE << >>

\* the eight prop! in order, slot i and the slots after it
RECURSIVE Props(_, _, _)
Props(taken, targets, i) ==
  IF i > Len(SlotOrder) THEN << >>
  ELSE prop(Rest(taken, SlotOrder[i]), PropertyOf(SlotOrder[i]), targets)
       \o Props(taken, targets, i + 1)

\* the declarations a flush pushes for the slots taken out of the handler
FlushOutput(taken, targets) ==
  (IF CanMerge(taken)
   THEN << Shorthand(Animations(taken),
                     OutPrefix(Intersection(taken), "Animation", targets)) >>
   ELSE << >>)
  \o Props(taken, targets, 1)

\* flush that pushes the declarations and leaves the slots in the handler
flush_keeps_slots(st) ==
  LET h == st.self
      n == Len(st.dest)
  IN IF ~h.has_any
     THEN [st EXCEPT !.log = Append(@, [pre |-> h, post |-> h, from |-> n, to |-> n])]
     ELSE LET out == FlushOutput(h, h.targets)
          IN [st EXCEPT !.dest = @ \o out,
                        !.log = Append(@, [pre |-> h, post |-> h,
                                           from |-> n, to |-> n + Len(out)])]

\* AnimationHandler::flush(&mut self, dest)
flush(st) ==
  LET h == st.self
      n == Len(st.dest)
  IN IF ~h.has_any
     THEN [st EXCEPT !.log = Append(@, [pre |-> h, post |-> h, from |-> n, to |-> n])]
     ELSE LET out == FlushOutput(h, h.targets)
          IN [st EXCEPT !.self = new(h.targets),
                        !.dest = @ \o out,
                        !.log = Append(@, [pre |-> h, post |-> new(h.targets),
                                           from |-> n, to |-> n + Len(out)])]

\* maybe_flush! without the test of the prefixes: flushes whenever the value differs
maybe_flush_any_prefix(st, slot, val, vp) ==
  IF /\ st.self[slot].set
     /\ st.self[slot].val # val
  THEN flush(st)
  ELSE st

\* maybe_flush!($prop, $val, $vp)
maybe_flush(st, slot, val, vp) ==
  IF /\ st.self[slot].set
     /\ st.self[slot].val # val
     /\ ~(vp \subseteq st.self[slot].vp)
  THEN flush(st)
  ELSE st

\* property! with the prefixes replaced where they are added
property_replaces_prefixes(st, slot, val, vp) ==
  LET s1 == maybe_flush(st, slot, val, vp)
  IN [s1 EXCEPT !.self[slot] = SomeSlot(val, vp), !.self.has_any = TRUE]

\* property!($prop, $val, $vp)
property(st, slot, val, vp) ==
  LET s1 == maybe_flush(st, slot, val, vp)
  IN IF s1.self[slot].set
     THEN [s1 EXCEPT !.self[slot].val = val, !.self[slot].vp = @ \cup vp]
     ELSE [s1 EXCEPT !.self[slot] = SomeSlot(val, vp), !.self.has_any = TRUE]

\* val.iter().map(|b| b.$field.clone()).collect()
Collect(list, slot) == [i \in 1..Len(list) |-> FieldOf(list[i], slot)]

\* the eight maybe_flush! of the Animation arm, slot i and the slots after it
RECURSIVE FlushChecks(_, _, _, _)
FlushChecks(st, list, vp, i) ==
  IF i > Len(SlotOrder) THEN st
  ELSE FlushChecks(maybe_flush(st, SlotOrder[i], Collect(list, SlotOrder[i]), vp),
                   list, vp, i + 1)

\* the eight property! of the Animation arm, slot i and the slots after it
RECURSIVE Updates(_, _, _, _)
Updates(st, list, vp, i) ==
  IF i > Len(SlotOrder) THEN st
  ELSE Updates(property(st, SlotOrder[i], Collect(list, SlotOrder[i]), vp),
               list, vp, i + 1)

\* the Animation arm with a flush in place of the eight maybe_flush!
handle_animation_flush_first(st, list, vp) ==
  Updates(flush(st), list, vp, 1)

\* the Animation(val, vp) arm of handle_property
handle_animation(st, list, vp) ==
  Updates(FlushChecks(st, list, vp, 1), list, vp, 1)

\* UnparsedProperty::get_prefixed(targets, feature): the property id takes the
\* prefixes the targets need when it is unprefixed
get_prefixed(p, targets, feature) ==
  IF "none" \in p.vp /\ targets.some
  THEN [p EXCEPT !.vp = prefixes_for(feature, targets)]
  ELSE p

\* the Unparsed arm without the flush
handle_unparsed_no_flush(st, p) ==
  [st EXCEPT !.dest = Append(@, get_prefixed(p, st.self.targets, "Animation"))]

\* the Unparsed arm of handle_property
handle_unparsed(st, p) ==
  LET s1 == flush(st)
  IN [s1 EXCEPT !.dest = Append(@, get_prefixed(p, st.self.targets, "Animation"))]

\* handle_property with a flush before it turns an unrelated property down
handle_property_flushes_unrelated(h, p, d) ==
  LET st == CallState(h, d)
  IN CASE p.prop \in LonghandProps -> property(st, SlotOf(p.prop), p.val, p.vp)
       [] p.prop = "Animation" -> handle_animation(st, p.list, p.vp)
       [] p.prop = "Unparsed" /\ is_animation_property(p.id) -> handle_unparsed(st, p)
       [] OTHER -> [flush(st) EXCEPT !.ret = FALSE]

\* AnimationHandler::handle_property(&mut self, property, dest, _) -> bool
handle_property(h, p, d) ==
  LET st == CallState(h, d)
  IN CASE p.prop \in LonghandProps -> property(st, SlotOf(p.prop), p.val, p.vp)
       [] p.prop = "Animation" -> handle_animation(st, p.list, p.vp)
       [] p.prop = "Unparsed" /\ is_animation_property(p.id) -> handle_unparsed(st, p)
       [] OTHER -> [st EXCEPT !.ret = FALSE]

\* AnimationHandler::finalize(&mut self, dest, _)
finalize(h, d) == flush(CallState(h, d))

(***************************************************************************)
(* The declarations fed to the handler.                                    *)
(***************************************************************************)
\* the value lists a longhand declaration of each slot may carry
SlotVals(slot) ==
  CASE slot = "names" -> { <<"a">>, <<"b">>, <<"a", "b">> }
    [] slot = "durations" -> { <<"1s">>, <<"2s">> }
    [] slot = "timing_functions" -> { <<"ease">> }
    [] slot = "iteration_counts" -> { <<"1">> }
    [] slot = "directions" -> { <<"normal">> }
    [] slot = "play_states" -> { <<"running">> }
    [] slot = "delays" -> { <<"0s">> }
    [] slot = "fill_modes" -> { <<"none">> }

\* an Animation with the given name and duration and the other fields at
\* the value the longhands above carry
Anim(n, d) ==
  [name |-> n, duration |-> d, timing_function |-> "ease",
   iteration_count |-> "1", direction |-> "normal", play_state |-> "running",
   delay |-> "0s", fill_mode |-> "none"]

\* the lists an `animation` declaration may carry
AnimationLists ==
  { << Anim("a", "1s") >>, << Anim("b", "2s") >>,
    << Anim("a", "1s"), Anim("b", "1s") >> }

\* the Unparsed declarations: two of the animation family, one that is not
UnparsedProps ==
  { Unparsed("AnimationName", {"none"}, "var(--x)"),
    Unparsed("Animation", {"webkit"}, "var(--x)"),
    Unparsed("Color", {"none"}, "var(--x)") }

\* a declaration of another family
OtherProps == { Longhand("Color", <<"red">>, {"none"}) }

\* the targets a handler may be built with: none, or browsers that need
\* both the unprefixed and the -webkit- property
TargetsSet == { NoTargets, [some |-> TRUE, prefixes |-> {"none", "webkit"}] }

\* the eight longhands that carry what one `animation` declaration carries
LonghandRun(list, vp) ==
  [i \in 1..Len(SlotOrder) |->
    Longhand(PropertyOf(SlotOrder[i]), Collect(list, SlotOrder[i]), vp)]

\* the eight longhands with the run's first slot under prefix p1 and the
\* other seven under prefix p2
SplitRun(p1, p2) ==
  [i \in 1..Len(SlotOrder) |->
    Longhand(PropertyOf(SlotOrder[i]),
             Collect(<< Anim("a", "1s") >>, SlotOrder[i]),
             IF i = 1 THEN {p1} ELSE {p2})]

\* Declaration prefixes the handler has already seen when the model starts:
\* none; a name under both prefixes and a duration; all eight slots with
\* the name under another prefix than the rest; all eight slots under one
\* prefix.  Each is a sequence of longhands handled from a new handler.
Preloads ==
  { << >>,
    << Longhand("AnimationName", <<"a">>, {"none"}),
       Longhand("AnimationName", <<"a">>, {"webkit"}),
       Longhand("AnimationDuration", <<"1s">>, {"none"}) >>,
    SplitRun("none", "webkit"),
    LonghandRun(<< Anim("a", "1s") >>, {"none"}) }

\* handle the declarations of seq in order
RECURSIVE HandleAll(_, _, _)
HandleAll(h, seq, d) ==
  IF seq = << >> THEN CallState(h, d)
  ELSE LET st == handle_property(h, Head(seq), d)
       IN HandleAll(st.self, Tail(seq), st.dest)

(***************************************************************************)
(* The `animation` shorthand: tokens, the value grammars, Animation::parse *)
(* and Animation::to_css.  A token is its kind and its text; a value is    *)
(* its variant and the text the variant carries.                           *)
(***************************************************************************)
\* number of tokens of a shorthand text
MaxTokens == 3

Tok(k, s) == [k |-> k, s |-> s]

\* the tokens a text is made of: identifiers, quoted strings, times,
\* numbers, and a length that no grammar of the shorthand takes
Tokens ==
  {Tok("ident", x) : x \in {"foo", "ease", "linear", "infinite", "INFINITE",
                            "reverse", "none", "forwards", "paused", "initial"}}
  \cup {Tok("string", x) : x \in {"foo", "none", "paused"}}
  \cup {Tok("time", x) : x \in {"0s", "1s"}}
  \cup {Tok("number", x) : x \in {"1", "3"}}
  \cup {Tok("dimension", "10px")}

Val(t, s) == [t |-> t, s |-> s]

\* a grammar that does not take the token
Err == Val("Err", "")

\* a slot no token has filled
Unfilled == Val("Unfilled", "")

\* ASCII lower case, for the texts of Tokens
Lower(x) ==
  CASE x = "INFINITE" -> "infinite"
    [] x \in {"NONE", "None"} -> "none"
    [] x = "Initial" -> "initial"
    [] x = "Inherit" -> "inherit"
    [] x = "REVERT-LAYER" -> "revert-layer"
    [] OTHER -> x

\* Time::parse: a dimension in seconds
Time_parse(tok) ==
  IF tok.k = "time"
  THEN Val("Seconds", CASE tok.s = "0s" -> "0" [] tok.s = "1s" -> "1")
  ELSE Err

\* Time::to_css
Time_to_css(v) == Tok("time", CASE v.s = "0" -> "0s" [] v.s = "1" -> "1s")

\* Time::is_zero
is_zero(v) == v.s = "0"

\* the keywords of EasingFunction and their variants
EasingKeywords ==
  << <<"linear", "Linear">>, <<"ease", "Ease">>, <<"ease-in", "EaseIn">>,
     <<"ease-out", "EaseOut">>, <<"ease-in-out", "EaseInOut">> >>

\* the keywords of AnimationDirection, AnimationPlayState and
\* AnimationFillMode and their variants (enum_property!)
DirectionKeywords ==
  << <<"normal", "Normal">>, <<"reverse", "Reverse">>,
     <<"alternate", "Alternate">>, <<"alternate-reverse", "AlternateReverse">> >>

PlayStateKeywords == << <<"running", "Running">>, <<"paused", "Paused">> >>

FillModeKeywords ==
  << <<"none", "None">>, <<"forwards", "Forwards">>,
     <<"backwards", "Backwards">>, <<"both", "Both">> >>

\* the variant of the keyword x in a keyword table, or Err
VariantOf(table, x) ==
  IF \E i \in 1..Len(table) : table[i][1] = x
  THEN Val(table[CHOOSE i \in 1..Len(table) : table[i][1] = x][2], "")
  ELSE Err

\* the keyword of a variant in a keyword table
KeywordOf(table, v) ==
  Tok("ident", table[CHOOSE i \in 1..Len(table) : table[i][2] = v.t][1])

\* parse_string of an enum_property!: keywords match in any ASCII case
parse_string(table, x) == VariantOf(table, Lower(x))

\* parse of an enum_property!: one identifier
Enum_parse(table, tok) ==
  IF tok.k = "ident" THEN parse_string(table, tok.s) ELSE Err

\* EasingFunction::parse, for the keywords
EasingFunction_parse(tok) == Enum_parse(EasingKeywords, tok)

\* EasingFunction::is_ident: the text is one of the keywords, as written
is_ident(x) == VariantOf(EasingKeywords, x) # Err

\* AnimationIterationCount::parse
AnimationIterationCount_parse(tok) ==
  IF tok.k = "ident" /\ Lower(tok.s) = "infinite" THEN Val("Infinite", "")
  ELSE IF tok.k = "number" THEN Val("Number", tok.s)
  ELSE Err

\* AnimationIterationCount::to_css
AnimationIterationCount_to_css(v) ==
  IF v.t = "Infinite" THEN Tok("ident", "infinite") ELSE Tok("number", v.s)

\* `none` and the CSS-wide keywords, which a name cannot be without quotes
CssWideOrNone ==
  {"none", "initial", "inherit", "unset", "default", "revert", "revert-layer"}

\* AnimationName::parse
AnimationName_parse(tok) ==
  IF tok.k = "ident" /\ Lower(tok.s) = "none" THEN Val("None", "")
  ELSE IF tok.k = "ident"
       THEN IF Lower(tok.s) \in CssWideOrNone THEN Err ELSE Val("Ident", tok.s)
  ELSE IF tok.k = "string" THEN Val("Custom", tok.s)
  ELSE Err

\* AnimationName::to_css with the keywords matched in the case they are
\* written in
AnimationName_to_css_exact_case(v) ==
  CASE v.t = "None" -> Tok("ident", "none")
    [] v.t = "Ident" -> Tok("ident", v.s)
    [] v.t = "Custom" ->
         IF v.s \in CssWideOrNone THEN Tok("string", v.s) ELSE Tok("ident", v.s)

\* AnimationName::to_css
AnimationName_to_css(v) ==
  CASE v.t = "None" -> Tok("ident", "none")
    [] v.t = "Ident" -> Tok("ident", v.s)
    [] v.t = "Custom" ->
         IF Lower(v.s) \in CssWideOrNone THEN Tok("string", v.s) ELSE Tok("ident", v.s)

\* ParseOrder with the name tried first
ParseOrderNameFirst ==
  << "name", "duration", "timing_function", "delay", "iteration_count",
     "direction", "fill_mode", "play_state" >>

\* the order in which the loop of Animation::parse tries the slots
ParseOrder ==
  << "duration", "timing_function", "delay", "iteration_count",
     "direction", "fill_mode", "play_state", "name" >>

\* $type::parse of the slot's type on one token
SlotParse(slot, tok) ==
  CASE slot = "duration" -> Time_parse(tok)
    [] slot = "timing_function" -> EasingFunction_parse(tok)
    [] slot = "delay" -> Time_parse(tok)
    [] slot = "iteration_count" -> AnimationIterationCount_parse(tok)
    [] slot = "direction" -> Enum_parse(DirectionKeywords, tok)
    [] slot = "fill_mode" -> Enum_parse(FillModeKeywords, tok)
    [] slot = "play_state" -> Enum_parse(PlayStateKeywords, tok)
    [] slot = "name" -> AnimationName_parse(tok)

\* the local variables of Animation::parse, all None
NoSlots ==
  [name |-> Unfilled, duration |-> Unfilled, timing_function |-> Unfilled,
   iteration_count |-> Unfilled, direction |-> Unfilled, play_state |-> Unfilled,
   delay |-> Unfilled, fill_mode |-> Unfilled]

\* Takes without the test that the slot is unfilled
TakesEvenIfFilled(filled, slot, toks) ==
  /\ toks # << >>
  /\ SlotParse(slot, Head(toks)) # Err

\* parse_prop!($var, $type) succeeds on the next token
Takes(filled, slot, toks) ==
  /\ filled[slot] = Unfilled
  /\ toks # << >>
  /\ SlotParse(slot, Head(toks)) # Err

\* ParseTurn with a token that no slot takes skipped instead of ending the loop
ParseTurnSkipsRejected(ps) ==
  LET takers == {i \in 1..Len(ParseOrder) : Takes(ps.filled, ParseOrder[i], ps.toks)}
  IN IF takers = {}
     THEN IF ps.toks = << >> THEN [ps EXCEPT !.done = TRUE]
          ELSE [ps EXCEPT !.toks = Tail(ps.toks)]
     ELSE LET slot == ParseOrder[CHOOSE i \in takers : \A j \in takers : i <= j]
          IN [ps EXCEPT !.filled[slot] = SlotParse(slot, Head(ps.toks)),
                        !.toks = Tail(ps.toks)]

\* one turn of the loop of Animation::parse: the first parse_prop! that
\* succeeds assigns its slot and consumes the token (`continue`); when none
\* does the loop ends (`break`)
ParseTurn(ps) ==
  LET takers == {i \in 1..Len(ParseOrder) : Takes(ps.filled, ParseOrder[i], ps.toks)}
  IN IF takers = {}
     THEN [ps EXCEPT !.done = TRUE]
     ELSE LET slot == ParseOrder[CHOOSE i \in takers : \A j \in takers : i <= j]
          IN [ps EXCEPT !.filled[slot] = SlotParse(slot, Head(ps.toks)),
                        !.toks = Tail(ps.toks)]

\* DefaultOf with the defaults of the iteration count and the play state
\* taken from the other variant
DefaultOfOtherVariant(slot) ==
  CASE slot = "name" -> Val("None", "")
    [] slot = "duration" -> Val("Seconds", "0")
    [] slot = "timing_function" -> Val("Ease", "")
    [] slot = "iteration_count" -> Val("Infinite", "")
    [] slot = "direction" -> Val("Normal", "")
    [] slot = "play_state" -> Val("Paused", "")
    [] slot = "delay" -> Val("Seconds", "0")
    [] slot = "fill_mode" -> Val("None", "")

\* the default a slot takes when no token filled it
DefaultOf(slot) ==
  CASE slot = "name" -> Val("None", "")
    [] slot = "duration" -> Val("Seconds", "0")
    [] slot = "timing_function" -> Val("Ease", "")
    [] slot = "iteration_count" -> Val("Number", "1")
    [] slot = "direction" -> Val("Normal", "")
    [] slot = "play_state" -> Val("Running", "")
    [] slot = "delay" -> Val("Seconds", "0")
    [] slot = "fill_mode" -> Val("None", "")

\* Ok(Animation { name: name.unwrap_or(..), .. })
WithDefaults(filled) ==
  [slot \in DOMAIN filled |->
    IF filled[slot] = Unfilled THEN DefaultOf(slot) ELSE filled[slot]]

\* the state of Animation::parse on entry
ParseStart(toks) == [filled |-> NoSlots, toks |-> toks, done |-> FALSE]

\* the loop of Animation::parse run to its break
RECURSIVE ParseLoop(_)
ParseLoop(ps) == IF ps.done THEN ps ELSE ParseLoop(ParseTurn(ps))

\* Animation::parse: the value and the input left
Animation_parse(toks) ==
  LET ps == ParseLoop(ParseStart(toks))
  IN [value |-> WithDefaults(ps.filled), rest |-> ps.toks]

\* the declaration parser on an `animation` declaration: the Animation when
\* Animation::parse left no input, the declaration as Unparsed otherwise
Property_parse(result, toks) ==
  IF result.rest = << >>
  THEN Shorthand(<< result.value >>, {"none"})
  ELSE Unparsed("Animation", {"none"}, toks)

\* the name's text, as the guards of Animation::to_css read it
NameText(name) == name.s

\* WriteOrder as the fields of Animation are declared
WriteOrderAsDeclared ==
  << "duration", "timing_function", "iteration_count", "direction",
     "play_state", "delay", "fill_mode" >>

\* the slots Animation::to_css writes after the name, in the order it
\* writes them, each with its condition
WriteOrder ==
  << "duration", "timing_function", "delay", "iteration_count",
     "direction", "fill_mode", "play_state" >>

\* Writes with no slot ever left out
WritesEverySlot(a, slot) == TRUE

\* the condition under which Animation::to_css writes a slot after the name
Writes(a, slot) ==
  CASE slot = "duration" -> ~is_zero(a.duration) \/ ~is_zero(a.delay)
    [] slot = "timing_function" ->
         \/ (a.timing_function # Val("Ease", "")
             /\ a.timing_function # Val("CubicBezier", "0.25,0.1,0.25,1"))
         \/ is_ident(NameText(a.name))
    [] slot = "delay" -> ~is_zero(a.delay)
    [] slot = "iteration_count" ->
         a.iteration_count # Val("Number", "1") \/ NameText(a.name) = "infinite"
    [] slot = "direction" ->
         \/ a.direction # Val("Normal", "")
         \/ parse_string(DirectionKeywords, NameText(a.name)) # Err
    [] slot = "fill_mode" ->
         \/ a.fill_mode # Val("None", "")
         \/ parse_string(FillModeKeywords, NameText(a.name)) # Err
    [] slot = "play_state" ->
         \/ a.play_state # Val("Running", "")
         \/ parse_string(PlayStateKeywords, NameText(a.name)) # Err

\* to_css of the value of a slot
SlotToCss(a, slot) ==
  CASE slot = "duration" -> Time_to_css(a.duration)
    [] slot = "timing_function" -> KeywordOf(EasingKeywords, a.timing_function)
    [] slot = "delay" -> Time_to_css(a.delay)
    [] slot = "iteration_count" -> AnimationIterationCount_to_css(a.iteration_count)
    [] slot = "direction" -> KeywordOf(DirectionKeywords, a.direction)
    [] slot = "fill_mode" -> KeywordOf(FillModeKeywords, a.fill_mode)
    [] slot = "play_state" -> KeywordOf(PlayStateKeywords, a.play_state)

\* Animation::to_css: the slots written after the name, in the order they
\* are written; none when the name is AnimationName::None (`return Ok(())`)
Animation_shown(a) ==
  LET Shown(slot) == Writes(a, slot)
  IN IF a.name.t = "None" THEN << >> ELSE SelectSeq(WriteOrder, Shown)

\* Animation::to_css: the tokens written
Animation_to_css(a) ==
  LET slots == Animation_shown(a)
  IN << AnimationName_to_css(a.name) >>
     \o [k \in 1..Len(slots) |-> SlotToCss(a, slots[k])]

\* the texts of the tokens given to AnimationName::parse on its own
NameTexts ==
  {"foo", "bar", "infinite", "paused", "none", "NONE", "None", "initial", "Initial",
   "inherit", "Inherit", "unset", "default", "revert", "revert-layer", "REVERT-LAYER"}

\* the tokens given to AnimationName::parse on its own
NameTokens ==
  {Tok(k, x) : k \in {"ident", "string"}, x \in NameTexts}
  \cup {Tok("number", "1"), Tok("time", "1s"), Tok("dimension", "10px")}

\* the texts: every sequence of at most MaxTokens tokens
Texts == UNION {[1..n -> Tokens] : n \in 0..MaxTokens}

(***************************************************************************)
(* The @keyframes rule (src/rules/keyframes.rs) and its colour fallbacks.  *)
(* A value is what it needs under the targets, whether it holds a colour   *)
(* that can be converted, and the form its colours are written in.         *)
(***************************************************************************)
\* number of declarations of a keyframe's block
MaxDecls == 2

\* the bits of ColorFallbackKind
ColorFallbackKind == {"RGB", "P3", "LAB"}

\* the order of the bits, lowest first
KindRank(kind) ==
  CASE kind = "RGB" -> 1
    [] kind = "P3" -> 2
    [] kind = "LAB" -> 3

\* ColorFallbackKind::lowest: the lowest bit of the set, or the empty set
lowest(kinds) ==
  {k \in kinds : \A j \in kinds : KindRank(k) <= KindRank(j)}

\* ColorFallbackKind::supports_condition
supports_condition(kind) == kind

\* a TokenList: `needs` are the kinds the targets make necessary, `colored`
\* tells whether it holds a colour that has another form, `form` is the
\* form its colours are in
Value(colored, needs, form) == [colored |-> colored, needs |-> needs, form |-> form]

NoValue == Value(FALSE, {}, "source")

\* TokenList::get_necessary_fallbacks(targets)
get_necessary_fallbacks(value) == value.needs

\* TokenList::get_fallback(kind): every colour converted to the kind; a
\* colour already written in RGB, the base form, has lost what the other
\* forms could hold and is returned as it is
value_get_fallback(value, kind) ==
  IF value.colored /\ value.form # "RGB" THEN [value EXCEPT !.form = kind] ELSE value

\* Property::Custom(CustomProperty { name, value })
Custom(name, value) == [prop |-> "Custom", id |-> name, value |-> value]

\* Property::Unparsed(UnparsedProperty { property_id, value })
UnparsedValue(property_id, value) ==
  [prop |-> "Unparsed", id |-> property_id, value |-> value]

\* any other Property
Parsed(property_id) == [prop |-> property_id, id |-> property_id, value |-> NoValue]

\* the declaration holds a value that get_fallbacks reads and rewrites
HasTokens(decl) == decl.prop \in {"Custom", "Unparsed"}

\* the kinds one declaration adds to `fallbacks`
NeededBy(decl) ==
  IF HasTokens(decl) THEN get_necessary_fallbacks(decl.value) ELSE {}

\* the loop over keyframe.declarations.declarations: `fallbacks |= ...`
RECURSIVE ScanDeclarations(_, _)
ScanDeclarations(decls, kinds) ==
  IF decls = << >> THEN kinds
  ELSE ScanDeclarations(Tail(decls), kinds \cup NeededBy(Head(decls)))

\* the declaration of a fallback rule: Custom and Unparsed with the value
\* converted, any other property cloned
FallbackProperty(decl, kind) ==
  IF HasTokens(decl)
  THEN [decl EXCEPT !.value = value_get_fallback(decl.value, kind)]
  ELSE decl

\* the keyframe of a fallback rule
FallbackKeyframe(keyframe, kind) ==
  [selectors |-> keyframe.selectors,
   declarations |->
     [important_declarations |-> << >>,
      declarations |->
        [i \in 1..Len(keyframe.declarations.declarations) |->
          FallbackProperty(keyframe.declarations.declarations[i], kind)]]]

\* KeyframesRule { name, keyframes, vendor_prefix, loc }
KeyframesRule(name, keyframes, vendor_prefix, loc) ==
  [name |-> name, keyframes |-> keyframes, vendor_prefix |-> vendor_prefix, loc |-> loc]

\* CssRule::Supports(SupportsRule { condition, rules, loc })
SupportsRule(condition, rules, loc) ==
  [condition |-> condition, rules |-> rules, loc |-> loc]

\* KeyframesRule::get_fallback(kind): the rule cloned with its values
\* converted, inside an @supports rule for the kind
get_fallback(rule, kind) ==
  SupportsRule(
    supports_condition(kind),
    << KeyframesRule(
         rule.name,
         [i \in 1..Len(rule.keyframes) |-> FallbackKeyframe(rule.keyframes[i], kind)],
         rule.vendor_prefix,
         rule.loc) >>,
    rule.loc)

\* the in-place rewrite of one keyframe: the value of every Custom and
\* Unparsed declaration of keyframe.declarations.declarations converted
RewriteKeyframe(keyframe, kind) ==
  [keyframe EXCEPT !.declarations.declarations =
    [i \in 1..Len(keyframe.declarations.declarations) |->
      FallbackProperty(keyframe.declarations.declarations[i], kind)]]

\* `fallbacks.contains(ColorFallbackKind::P3)`
WantsP3(kinds) == "P3" \in kinds

\* WantsLAB without the test of the lowest fallback
WantsLABIfLeft(kinds, low) == "LAB" \in kinds

\* WantsLAB without the test that the lowest fallback is not LAB
WantsLABWhenAnyLowest(kinds, low) == "LAB" \in kinds \/ low # {}

\* `fallbacks.contains(LAB) || (!lowest_fallback.is_empty() && lowest_fallback != LAB)`
WantsLAB(kinds, low) == "LAB" \in kinds \/ (low # {} /\ low # {"LAB"})

\* Rewrites with the test made on what is left of the fallbacks
RewritesIfLeft(kinds, low) == kinds # {}

\* `!lowest_fallback.is_empty()`: the original rule is rewritten
Rewrites(kinds, low) == low # {}

\* the values of the declarations of a rule
Colored(needs) == Value(TRUE, needs, "source")

KeyframeProps ==
  {Custom("--a", Colored({"RGB"})), Custom("--b", Colored({"P3"})),
   UnparsedValue("color", Colored({"LAB"})), UnparsedValue("color", NoValue),
   Parsed("opacity")}

ImportantLists == {<< >>, << Custom("--b", Colored({"P3"})) >>}

\* DeclarationBlock { important_declarations, declarations }
DeclarationBlocks ==
  {[important_declarations |-> imp, declarations |-> decls] :
     imp \in ImportantLists,
     decls \in UNION {[1..n -> KeyframeProps] : n \in 0..MaxDecls}}

\* the selectors of the keyframes of a rule, in order
KeyframeSelectors == << << "from" >>, << "to" >> >>

\* the rules given to get_fallbacks
Rules ==
  {KeyframesRule("foo",
                 [i \in 1..n |-> [selectors |-> KeyframeSelectors[i],
                                  declarations |-> blocks[i]]],
                 {"none"}, "loc") :
     n \in 1..Len(KeyframeSelectors), blocks \in [1..Len(KeyframeSelectors) -> DeclarationBlocks]}

(***************************************************************************)
(* The state machine: one handler fed one declaration per step.            *)
(***************************************************************************)
VARIABLES
  self,      \* the AnimationHandler
  dest,      \* the DeclarationList it writes to
  input,     \* the declarations handled so far
  last,      \* the last call: its argument, the handler before it, its flushes
  steps,     \* calls made since the start
  self2,     \* a second handler, fed longhand runs in place of shorthands
  dest2,     \* the DeclarationList of the second handler
  replaced,  \* "no", or whether the last call ("now") or an earlier one
             \* ("before") gave the second handler a longhand run in place of
             \* the shorthand the first handler got
  text,      \* the tokens of a shorthand value given to Animation::parse
  ps,        \* Animation::parse at work: the slots filled, the input left
  pc,        \* "idle", or where the round trip of text is: "parse",
             \* "parsed", "printed", "reparsed"; "declared" when the
             \* declaration of text was given to the handler instead
  value,     \* the Animation that Animation::parse returned
  out,       \* the tokens Animation::to_css wrote for value
  shown,     \* the slots Animation::to_css wrote after the name, in order
  back,      \* what Animation::parse returned for out
  rule,      \* the KeyframesRule that get_fallbacks is called on
  entry,     \* the rule as get_fallbacks found it
  fallbacks, \* the local `fallbacks` of get_fallbacks
  lowest_fallback, \* the local `lowest_fallback`
  res,       \* the local `res`, the rules get_fallbacks returns
  scanned,   \* the keyframes the first loop of get_fallbacks has scanned
  fpc,       \* "idle", or where get_fallbacks is: "scan", "p3", "lab",
             \* "rewrite", "done"
  ntoken,    \* the token given to AnimationName::parse on its own
  nvalue,    \* the AnimationName parsed from it, or Err
  nout,      \* what AnimationName::to_css wrote for nvalue
  nback,     \* what AnimationName::parse made of nout
  npc        \* "idle", or where the round trip of ntoken is: "given",
             \* "parsed", "written", "reparsed"

handlerVars == << self, dest, input, last, steps, self2, dest2, replaced >>

parseVars == << text, ps, pc, value, out, shown, back >>

fallbackVars == << rule, entry, fallbacks, lowest_fallback, res, scanned, fpc >>

nameVars == << ntoken, nvalue, nout, nback, npc >>

vars == << self, dest, input, last, steps, self2, dest2, replaced,
           text, ps, pc, value, out, shown, back,
           rule, entry, fallbacks, lowest_fallback, res, scanned, fpc,
           ntoken, nvalue, nout, nback, npc >>

FinalizeOp == Longhand("Finalize", << >>, {})

InitOp == Longhand("Init", << >>, {})

\* no name is being parsed on its own
NameIdle ==
  /\ ntoken = Tok("ident", "none")
  /\ nvalue = Err
  /\ nout = Tok("ident", "none")
  /\ nback = Err
  /\ npc = "idle"

\* no shorthand text is being parsed
ParseIdle ==
  /\ text = << >>
  /\ ps = ParseStart(<< >>)
  /\ pc = "idle"
  /\ value = WithDefaults(NoSlots)
  /\ out = << >>
  /\ shown = << >>
  /\ back = Animation_parse(<< >>)

\* get_fallbacks is not being called
FallbacksIdle ==
  /\ rule = KeyframesRule("", << >>, {}, "")
  /\ entry = rule
  /\ fallbacks = {}
  /\ lowest_fallback = {}
  /\ res = << >>
  /\ scanned = 0
  /\ fpc = "idle"

\* a new handler that has handled nothing
HandlerIdle ==
  /\ self = new(NoTargets)
  /\ dest = << >>
  /\ input = << >>
  /\ last = [op |-> InitOp, prev |-> InitOp.prop, pre |-> new(NoTargets), n0 |-> 0,
             log |-> << >>, ret |-> TRUE]
  /\ steps = 0
  /\ self2 = new(NoTargets)
  /\ dest2 = << >>
  /\ replaced = "no"

Init ==
  /\ ParseIdle
  /\ FallbacksIdle
  /\ NameIdle
  /\ \E t \in TargetsSet, pre \in Preloads :
       LET st == HandleAll(new(t), pre, << >>)
       IN /\ self = st.self
          /\ dest = st.dest
          /\ input = pre
          /\ last = [op |-> InitOp, prev |-> InitOp.prop, pre |-> new(t), n0 |-> 0,
                     log |-> << >>, ret |-> TRUE]
          /\ steps = 0
          /\ self2 = st.self
          /\ dest2 = st.dest
          /\ replaced = "no"

\* one call of handle_property on the first handler
DoHandle(p) ==
  /\ steps < MaxSteps
  /\ \E st \in {handle_property(self, p, dest)} :
       /\ self' = st.self
       /\ dest' = st.dest
       /\ input' = Append(input, p)
       /\ last' = [op |-> p, prev |-> last.op.prop, pre |-> self, n0 |-> Len(dest),
                    log |-> st.log, ret |-> st.ret]
  /\ steps' = steps + 1
  /\ UNCHANGED << parseVars, fallbackVars, nameVars >>

\* one call of finalize on the first handler
DoFinalize ==
  /\ steps < MaxSteps
  /\ \E st \in {finalize(self, dest)} :
       /\ self' = st.self
       /\ dest' = st.dest
       /\ input' = input
       /\ last' = [op |-> FinalizeOp, prev |-> last.op.prop, pre |-> self,
                    n0 |-> Len(dest), log |-> st.log, ret |-> TRUE]
  /\ steps' = steps + 1
  /\ UNCHANGED << parseVars, fallbackVars, nameVars >>

HandleLonghand ==
  \E slot \in SlotNames, p \in VendorPrefix :
    \E val \in SlotVals(slot) :
      /\ DoHandle(Longhand(PropertyOf(slot), val, {p}))
      /\ UNCHANGED << self2, dest2, replaced >>

HandleShorthand ==
  \E list \in AnimationLists, p \in VendorPrefix :
    /\ DoHandle(Shorthand(list, {p}))
    /\ UNCHANGED << self2, dest2, replaced >>

HandleUnparsed ==
  \E u \in {x \in UnparsedProps : is_animation_property(x.id)} :
    /\ DoHandle(u)
    /\ UNCHANGED << self2, dest2, replaced >>

HandleOther ==
  \E o \in OtherProps \cup {x \in UnparsedProps : ~is_animation_property(x.id)} :
    /\ DoHandle(o)
    /\ UNCHANGED << self2, dest2, replaced >>

Finalize ==
  /\ DoFinalize
  /\ UNCHANGED << self2, dest2, replaced >>

Next ==
  \/ HandleLonghand
  \/ HandleShorthand
  \/ HandleUnparsed
  \/ HandleOther
  \/ Finalize

Spec == Init /\ [][Next]_vars

(***************************************************************************)
(* Two handlers side by side.  Both get the same declarations, except that *)
(* for one `animation` declaration the second handler gets the eight       *)
(* longhands that carry the same values under the same prefix.             *)
(***************************************************************************)
\* the second handler handles the declarations of seq
Shadow(seq) ==
  \E st \in {HandleAll(self2, seq, dest2)} :
    /\ self2' = st.self
    /\ dest2' = st.dest

Aged == IF replaced = "no" THEN "no" ELSE "before"

MergeLonghand ==
  \E slot \in SlotNames, p \in VendorPrefix :
    \E val \in SlotVals(slot) :
      /\ DoHandle(Longhand(PropertyOf(slot), val, {p}))
      /\ Shadow(<< Longhand(PropertyOf(slot), val, {p}) >>)
      /\ replaced' = Aged

MergeShorthand ==
  \E list \in AnimationLists, p \in VendorPrefix :
    /\ DoHandle(Shorthand(list, {p}))
    /\ Shadow(<< Shorthand(list, {p}) >>)
    /\ replaced' = Aged

MergeShorthandAsRun ==
  \E list \in AnimationLists, p \in VendorPrefix :
    /\ replaced = "no"
    /\ DoHandle(Shorthand(list, {p}))
    /\ Shadow(LonghandRun(list, {p}))
    /\ replaced' = "now"

MergeUnparsed ==
  \E u \in {x \in UnparsedProps : is_animation_property(x.id)} :
    /\ DoHandle(u)
    /\ Shadow(<< u >>)
    /\ replaced' = Aged

MergeOther ==
  \E o \in OtherProps \cup {x \in UnparsedProps : ~is_animation_property(x.id)} :
    /\ DoHandle(o)
    /\ Shadow(<< o >>)
    /\ replaced' = Aged

\* the first handler gets a declaration of another family that the second
\* does not get
MergeOtherInserted ==
  \E o \in OtherProps \cup {x \in UnparsedProps : ~is_animation_property(x.id)} :
    /\ DoHandle(o)
    /\ UNCHANGED << self2, dest2 >>
    /\ replaced' = Aged

MergeFinalize ==
  /\ DoFinalize
  /\ \E st \in {finalize(self2, dest2)} :
       /\ self2' = st.self
       /\ dest2' = st.dest
  /\ replaced' = Aged

NextMerge ==
  \/ MergeLonghand
  \/ MergeShorthand
  \/ MergeShorthandAsRun
  \/ MergeUnparsed
  \/ MergeOther
  \/ MergeOtherInserted
  \/ MergeFinalize

SpecMerge == Init /\ [][NextMerge]_vars

(***************************************************************************)
(* Properties of the handler.                                              *)
(***************************************************************************)
\* the last call handled a longhand
LastLonghand == last.op.prop \in LonghandProps

\* the slot of the longhand of the last call, as the call found it
LastSlot == last.pre[SlotOf(last.op.prop)]

\* the last call found a set slot with a different value whose prefixes do
\* not contain the prefixes of the declaration
LastConflict ==
  /\ LastSlot.set
  /\ LastSlot.val # last.op.val
  /\ ~(last.op.vp \subseteq LastSlot.vp)

\* C1: while a longhand is handled a flush happens if and only if the slot
\* holds a different value and its prefix set does not contain the
\* declaration's; the flush finds the handler as the call found it (the slot
\* is not yet updated) and writes the accumulated declarations; in every
\* other case the call flushes and writes nothing.
C1_FlushIffConflict ==
  LastLonghand =>
    /\ (last.log # << >>) <=> LastConflict
    /\ LastConflict =>
         /\ Len(last.log) = 1
         /\ last.log[1].pre = last.pre
         /\ last.log[1].from = last.n0
         /\ last.log[1].to > last.log[1].from
    /\ ~LastConflict => dest = SubSeq(dest, 1, last.n0)

C1_Witness ==
  /\ LastLonghand
  /\ LastConflict
  /\ last.log # << >>
  /\ Len(dest) > last.n0

(***************************************************************************)
(* What a prefix sees: the value of the last declaration of a list that    *)
(* sets a slot under a prefix.                                             *)
(***************************************************************************)
\* the declaration sets the slot under prefix p
SetsSlot(decl, slot, p) ==
  /\ p \in decl.vp
  /\ \/ decl.prop = PropertyOf(slot)
     \/ decl.prop = "Animation"
     \/ decl.prop = "Unparsed" /\ decl.id \in {PropertyOf(slot), "Animation"}

\* the value the declaration gives the slot
ValueFor(decl, slot) ==
  IF decl.prop = "Animation" THEN Collect(decl.list, slot) ELSE decl.val

NeverSet == << "(never set)" >>

\* the value of the last declaration of seq that sets the slot under p
Effective(seq, slot, p) ==
  LET idx == {i \in 1..Len(seq) : SetsSlot(seq[i], slot, p)}
  IN IF idx = {} THEN NeverSet
     ELSE ValueFor(seq[CHOOSE i \in idx : \A j \in idx : j <= i], slot)

\* the last call was finalize
Finalized == last.op = FinalizeOp

\* C2 (as claimed): with no targets, once the declarations handled so far
\* have been finalized, for every slot and prefix the last output
\* declaration that sets the slot under the prefix carries the value of the
\* last input declaration that does.
C2_OutputKeepsLastValue ==
  (Finalized /\ ~self.targets.some) =>
    \A slot \in SlotNames, p \in VendorPrefix :
      Effective(dest, slot, p) = Effective(input, slot, p)

(***************************************************************************)
(* A shorthand against its run of longhands (SpecMerge).                   *)
(***************************************************************************)
\* slot i of the handler h conflicts with the shorthand (list, vp): it is
\* set, to another value, under prefixes that do not contain vp
ConflictAt(h, list, vp, i) ==
  /\ h[SlotOrder[i]].set
  /\ h[SlotOrder[i]].val # Collect(list, SlotOrder[i])
  /\ ~(vp \subseteq h[SlotOrder[i]].vp)

\* the last call gave the first handler a shorthand and the second its run
RunReplaced == replaced = "now"

\* both handlers hold the same slots and have written the same declarations
SameHandlers == self = self2 /\ dest = dest2

\* C3 (as claimed): handling a shorthand leaves the same output and the same
\* slots as handling its eight longhands in slot order.
C3_ShorthandEqualsRun == RunReplaced => SameHandlers

\* some slot conflicts with the shorthand of the last call and the name
\* slot does not
LaterSlotConflictsFirst ==
  /\ \E i \in 2..Len(SlotOrder) : ConflictAt(last.pre, last.op.list, last.op.vp, i)
  /\ ~ConflictAt(last.pre, last.op.list, last.op.vp, 1)

\* C3 (amended): handling a shorthand leaves the same output and the same
\* slots as handling its eight longhands in slot order, unless a slot after
\* the name slot is the first one that conflicts with the shorthand.
C3_ShorthandEqualsRunUnlessLaterConflict ==
  (RunReplaced /\ ~LaterSlotConflictsFirst) => SameHandlers

C3_Witness ==
  /\ RunReplaced
  /\ ConflictAt(last.pre, last.op.list, last.op.vp, 1)
  /\ Len(dest) > last.n0
  /\ SameHandlers

\* C4 (as claimed): when a run of eight longhands under one prefix stands in
\* for a shorthand (the second handler against the first), then after
\* finalize, with no targets, every prefix sees the same value of every slot
\* in both outputs.
C4_RunAndShorthandSameEffectiveValues ==
  (Finalized /\ replaced # "no" /\ ~self.targets.some) =>
    \A slot \in SlotNames, p \in VendorPrefix :
      Effective(dest, slot, p) = Effective(dest2, slot, p)

(***************************************************************************)
(* Properties of flush, stated on the flushes of the last call: the        *)
(* handler each flush found (pre) and left (post) and what it wrote.       *)
(***************************************************************************)
\* the declarations the flush e wrote
Written(e) == SubSeq(dest, e.from + 1, e.to)

\* the positions of the shorthand declarations in seq
ShorthandsIn(seq) == {i \in 1..Len(seq) : seq[i].prop = "Animation"}

AllSet(h) == \A s \in SlotNames : h[s].set

SameLengths(h) == \A s \in SlotNames : Len(h[s].val) = Len(h.names.val)

\* the prefixes every slot of h has
Common(h) == {p \in VendorPrefix : \A s \in SlotNames : p \in h[s].vp}

\* the prefixes a declaration accumulated under vp is written with
Tagged(vp, h) ==
  IF h.targets.some /\ "none" \in vp THEN h.targets.prefixes ELSE vp

\* C5: a flush writes a shorthand if and only if all eight slots are set,
\* every value list is as long as the list of names and the prefix sets
\* have a common prefix; the shorthand is the first declaration written and
\* the only shorthand, its i-th animation is made of the i-th value of each
\* slot, and its prefixes are the common prefixes, or the prefixes of the
\* targets when targets are set and the unprefixed one is common.
C5_ShorthandIffMergeable ==
  \A i \in 1..Len(last.log) :
    LET e == last.log[i]
        h == e.pre
        w == Written(e)
    IN /\ (ShorthandsIn(w) # {}) <=> (AllSet(h) /\ SameLengths(h) /\ Common(h) # {})
       /\ ShorthandsIn(w) # {} =>
            /\ ShorthandsIn(w) = {1}
            /\ Len(w[1].list) = Len(h.names.val)
            /\ \A k \in 1..Len(w[1].list), s \in SlotNames :
                 FieldOf(w[1].list[k], s) = h[s].val[k]
            /\ w[1].vp = Tagged(Common(h), h)

C5_Witness ==
  \E i \in 1..Len(last.log) :
    /\ ShorthandsIn(Written(last.log[i])) # {}
    /\ Len(Written(last.log[i])[1].list) = 2

\* the slots of h, in slot order, that keep a prefix outside `common`
SlotsLeft(h, common) ==
  LET Left(s) == h[s].set /\ h[s].vp \ common # {}
  IN SelectSeq(SlotOrder, Left)

\* C6 (as claimed): a flush that wrote a shorthand writes after it, in slot
\* order, one longhand for every slot that has a prefix outside the
\* intersection, with exactly the slot's prefixes outside the intersection,
\* and nothing else.
C6_RestAfterShorthand ==
  \A i \in 1..Len(last.log) :
    LET e == last.log[i]
        h == e.pre
        w == Written(e)
        kept == SlotsLeft(h, Common(h))
    IN ShorthandsIn(w) # {} =>
         /\ Len(w) = 1 + Len(kept)
         /\ \A k \in 1..Len(kept) :
              /\ w[k + 1].prop = PropertyOf(kept[k])
              /\ w[k + 1].vp = h[kept[k]].vp \ Common(h)

\* C6 (amended): as C6, the longhand carrying the slot's prefixes outside
\* the intersection, or the prefixes of the targets when targets are set and
\* the unprefixed one is among them.
C6_RestAfterShorthandTagged ==
  \A i \in 1..Len(last.log) :
    LET e == last.log[i]
        h == e.pre
        w == Written(e)
        kept == SlotsLeft(h, Common(h))
    IN ShorthandsIn(w) # {} =>
         /\ Len(w) = 1 + Len(kept)
         /\ \A k \in 1..Len(kept) :
              /\ w[k + 1].prop = PropertyOf(kept[k])
              /\ w[k + 1].vp = Tagged(h[kept[k]].vp \ Common(h), h)

C6_Witness ==
  \E i \in 1..Len(last.log) :
    /\ ShorthandsIn(Written(last.log[i])) # {}
    /\ Len(Written(last.log[i])) > 1
    /\ Len(Written(last.log[i])) < 1 + Len(SlotOrder)

\* C7 (as claimed): a flush that finds a slot unset, or all slots set with
\* value lists of different lengths, writes no shorthand: it writes, in
\* slot order, one longhand for every set slot, with the slot's value and
\* all the slot's prefixes.
C7_NoMergeWritesLonghands ==
  \A i \in 1..Len(last.log) :
    LET e == last.log[i]
        h == e.pre
        w == Written(e)
        kept == SlotsLeft(h, {})
    IN (~AllSet(h) \/ ~SameLengths(h)) =>
         /\ ShorthandsIn(w) = {}
         /\ Len(w) = Len(kept)
         /\ \A k \in 1..Len(kept) :
              /\ w[k].prop = PropertyOf(kept[k])
              /\ w[k].val = h[kept[k]].val
              /\ w[k].vp = h[kept[k]].vp

\* C7 (amended): as C7, each longhand carrying all the slot's prefixes, or
\* the prefixes of the targets when targets are set and the unprefixed one
\* is among them.
C7_NoMergeWritesLonghandsTagged ==
  \A i \in 1..Len(last.log) :
    LET e == last.log[i]
        h == e.pre
        w == Written(e)
        kept == SlotsLeft(h, {})
    IN (~AllSet(h) \/ ~SameLengths(h)) =>
         /\ ShorthandsIn(w) = {}
         /\ Len(w) = Len(kept)
         /\ \A k \in 1..Len(kept) :
              /\ w[k].prop = PropertyOf(kept[k])
              /\ w[k].val = h[kept[k]].val
              /\ w[k].vp = Tagged(h[kept[k]].vp, h)

C7_Witness ==
  \E i \in 1..Len(last.log) :
    /\ AllSet(last.log[i].pre)
    /\ ~SameLengths(last.log[i].pre)
    /\ Len(Written(last.log[i])) = Len(SlotOrder)

\* the last call handled an Unparsed property of the animation family
LastUnparsed ==
  /\ last.op.prop = "Unparsed"
  /\ last.op.id \in LonghandProps \cup {"Animation"}

\* C8: handling an Unparsed property of the animation family flushes once,
\* first, and then appends the property: every slot set before the call is
\* written before it, what the flush wrote holds no Unparsed property, the
\* last declaration written is the Unparsed property, and every slot is
\* unset when the call returns.
C8_UnparsedFlushesThenAppends ==
  LastUnparsed =>
    /\ last.ret
    /\ Len(last.log) = 1
    /\ last.log[1].pre = last.pre
    /\ last.log[1].from = last.n0
    /\ Len(dest) = last.log[1].to + 1
    /\ dest[Len(dest)].prop = "Unparsed"
    /\ dest[Len(dest)].id = last.op.id
    /\ dest[Len(dest)].val = last.op.val
    /\ \A i \in (last.n0 + 1)..(Len(dest) - 1) : dest[i].prop # "Unparsed"
    /\ \A s \in SlotNames :
         last.pre[s].set =>
           \E i \in (last.n0 + 1)..(Len(dest) - 1) :
             dest[i].prop \in {PropertyOf(s), "Animation"}
    /\ \A s \in SlotNames : ~self[s].set
    /\ ~self.has_any

C8_Witness ==
  /\ LastUnparsed
  /\ last.pre.has_any
  /\ Len(dest) > last.n0 + 1

\* C9: every flush leaves all eight slots unset, and so does finalize; a
\* flush that finds no slot set writes nothing, and a finalize that follows
\* a finalize writes nothing.
C9_FlushClearsSlots ==
  /\ \A i \in 1..Len(last.log) :
       /\ \A s \in SlotNames : ~last.log[i].post[s].set
       /\ ~last.log[i].post.has_any
       /\ (\A s \in SlotNames : ~last.log[i].pre[s].set) =>
            last.log[i].to = last.log[i].from
  /\ Finalized =>
       /\ Len(last.log) = 1
       /\ \A s \in SlotNames : ~self[s].set
       /\ (\A s \in SlotNames : ~last.pre[s].set) => Len(dest) = last.n0
  /\ (Finalized /\ last.prev = FinalizeOp.prop) => Len(dest) = last.n0

C9_Witness ==
  /\ Finalized
  /\ last.prev = FinalizeOp.prop
  /\ Len(dest) > 0
  /\ Len(dest) = last.n0

(***************************************************************************)
(* The round trip of a shorthand text: Animation::parse turn by turn,      *)
(* Animation::to_css on the value, Animation::parse on what was written.   *)
(***************************************************************************)
InitParse ==
  /\ self = new(NoTargets)
  /\ dest = << >>
  /\ input = << >>
  /\ last = [op |-> InitOp, prev |-> InitOp.prop, pre |-> new(NoTargets), n0 |-> 0,
             log |-> << >>, ret |-> TRUE]
  /\ steps = 0
  /\ self2 = new(NoTargets)
  /\ dest2 = << >>
  /\ replaced = "no"
  /\ FallbacksIdle
  /\ NameIdle
  /\ text \in Texts
  /\ ps = ParseStart(text)
  /\ pc = "parse"
  /\ value = WithDefaults(NoSlots)
  /\ out = << >>
  /\ shown = << >>
  /\ back = Animation_parse(<< >>)

\* one turn of the loop of Animation::parse
ParseTurnStep ==
  /\ pc = "parse"
  /\ ~ps.done
  /\ ps' = ParseTurn(ps)
  /\ UNCHANGED << text, pc, value, out, shown, back >>
  /\ UNCHANGED << handlerVars, fallbackVars, nameVars >>

\* Animation::parse returns the value, the unfilled slots at their default
ParseReturn ==
  /\ pc = "parse"
  /\ ps.done
  /\ value' = WithDefaults(ps.filled)
  /\ pc' = "parsed"
  /\ UNCHANGED << text, ps, out, shown, back >>
  /\ UNCHANGED << handlerVars, fallbackVars, nameVars >>

\* Animation::to_css on the value of a text that was parsed to its end
WriteCss ==
  /\ pc = "parsed"
  /\ ps.toks = << >>
  /\ out' = Animation_to_css(value)
  /\ shown' = Animation_shown(value)
  /\ pc' = "printed"
  /\ UNCHANGED << text, ps, value, back >>
  /\ UNCHANGED << handlerVars, fallbackVars, nameVars >>

\* Animation::parse on the tokens written
Reparse ==
  /\ pc = "printed"
  /\ back' = Animation_parse(out)
  /\ pc' = "reparsed"
  /\ UNCHANGED << text, ps, value, out, shown >>
  /\ UNCHANGED << handlerVars, fallbackVars, nameVars >>

\* the declaration of the text reaches a new handler: the shorthand when the
\* text was parsed to its end, an Unparsed property otherwise
HandleParsed ==
  /\ pc = "parsed"
  /\ \E p \in {Property_parse([value |-> value, rest |-> ps.toks], text)} :
       \E st \in {handle_property(self, p, dest)} :
         /\ self' = st.self
         /\ dest' = st.dest
         /\ input' = << p >>
         /\ last' = [op |-> p, prev |-> last.op.prop, pre |-> self, n0 |-> Len(dest),
                      log |-> st.log, ret |-> st.ret]
  /\ pc' = "declared"
  /\ UNCHANGED << steps, self2, dest2, replaced >>
  /\ UNCHANGED << text, ps, value, out, shown, back >>
  /\ UNCHANGED << fallbackVars, nameVars >>

NextParse ==
  \/ ParseTurnStep
  \/ ParseReturn
  \/ WriteCss
  \/ Reparse
  \/ HandleParsed

SpecParse == InitParse /\ [][NextParse]_vars

\* C10 (as claimed): for a value obtained by parsing a text to its end,
\* parsing what Animation::to_css writes for it consumes all of it and
\* gives an equal value.
C10_RoundTrip ==
  pc = "reparsed" => (back.rest = << >> /\ back.value = value)

(***************************************************************************)
(* Properties of Animation::to_css, stated on the value it was given and   *)
(* the slots it wrote.                                                     *)
(***************************************************************************)
\* Animation::to_css has written the value
CssWritten == pc \in {"printed", "reparsed"}

\* the slots Animation::to_css may leave out without changing another slot
SkippableSlots ==
  {"timing_function", "iteration_count", "direction", "fill_mode", "play_state"}

\* the name is an identifier or a string
Named(a) == a.name.t \in {"Ident", "Custom"}

\* the text of the name, read as an identifier, is a value of the grammar
\* of the slot
Collides(a, slot) == SlotParse(slot, Tok("ident", NameText(a.name))) # Err

InSeq(x, seq) == \E k \in 1..Len(seq) : seq[k] = x

\* C11 (as claimed): when the name is an identifier or a string, every
\* skippable slot whose grammar takes the text of the name is written by
\* Animation::to_css, whatever the slot holds; each slot is tested on its
\* own.
C11_CollisionForcesSlot ==
  (CssWritten /\ Named(value)) =>
    \A slot \in SkippableSlots :
      Collides(value, slot) => InSeq(slot, shown)

(***************************************************************************)
(* Animation::to_css on the animations a handler can hold.  flush builds   *)
(* an Animation from one value of each longhand (izip!), so every          *)
(* combination of name, times, keywords and count reaches the printer.     *)
(***************************************************************************)
NameValues ==
  {Val("None", ""), Val("Ident", "foo"), Val("Ident", "infinite"),
   Val("Ident", "INFINITE"), Val("Ident", "paused"), Val("Custom", "none")}

AnimationValues ==
  [name : NameValues,
   duration : {Val("Seconds", "0"), Val("Seconds", "1")},
   timing_function : {Val("Ease", ""), Val("Linear", "")},
   iteration_count : {Val("Number", "1"), Val("Number", "3"), Val("Infinite", "")},
   direction : {Val("Normal", ""), Val("Reverse", "")},
   play_state : {Val("Running", ""), Val("Paused", "")},
   delay : {Val("Seconds", "0"), Val("Seconds", "1")},
   fill_mode : {Val("None", ""), Val("Forwards", "")}]

InitWrite ==
  /\ self = new(NoTargets)
  /\ dest = << >>
  /\ input = << >>
  /\ last = [op |-> InitOp, prev |-> InitOp.prop, pre |-> new(NoTargets), n0 |-> 0,
             log |-> << >>, ret |-> TRUE]
  /\ steps = 0
  /\ self2 = new(NoTargets)
  /\ dest2 = << >>
  /\ replaced = "no"
  /\ FallbacksIdle
  /\ NameIdle
  /\ text = << >>
  /\ ps = ParseStart(<< >>)
  /\ pc = "parsed"
  /\ value \in AnimationValues
  /\ out = << >>
  /\ shown = << >>
  /\ back = Animation_parse(<< >>)

NextWrite ==
  \/ WriteCss
  \/ Reparse

SpecWrite == InitWrite /\ [][NextWrite]_vars

\* the slots of an Animation other than the name
OtherSlots == {WriteOrder[k] : k \in 1..Len(WriteOrder)}

\* the slot holds its default and the text of the name is not one of its values
DefaultAndFree(a, slot) == a[slot] = DefaultOf(slot) /\ ~Collides(a, slot)

\* name=foo, duration=1s, timing=linear, count=3, the other slots at their default
FooLinear3 ==
  [WithDefaults(NoSlots) EXCEPT
     !.name = Val("Ident", "foo"), !.duration = Val("Seconds", "1"),
     !.timing_function = Val("Linear", ""), !.iteration_count = Val("Number", "3")]

FooLinear3Text ==
  << Tok("ident", "foo"), Tok("time", "1s"), Tok("ident", "linear"), Tok("number", "3") >>

\* C12 (as claimed): Animation::to_css leaves out every slot other than the
\* name that holds its default and does not collide with the name, and
\* writes `foo 1s linear 3` for name=foo, duration=1s, timing=linear, count=3.
C12_DefaultsLeftOut ==
  CssWritten =>
    /\ \A slot \in OtherSlots : DefaultAndFree(value, slot) => ~InSeq(slot, shown)
    /\ value = FooLinear3 => out = FooLinear3Text

\* C12 (amended): Animation::to_css leaves out every slot other than the name
\* that holds its default and does not collide with the name, except that
\* the duration is left out only when the delay is zero too; it writes
\* `foo 1s linear 3` for name=foo, duration=1s, timing=linear, count=3.
C12_DefaultsLeftOutUnlessDelayed ==
  CssWritten =>
    /\ \A slot \in OtherSlots :
         (DefaultAndFree(value, slot) /\ (slot = "duration" => is_zero(value.delay)))
           => ~InSeq(slot, shown)
    /\ value = FooLinear3 => out = FooLinear3Text

C12_Witness ==
  /\ CssWritten
  /\ value = FooLinear3
  /\ out = FooLinear3Text
  /\ shown = << "duration", "timing_function", "iteration_count" >>

(***************************************************************************)
(* KeyframesRule::get_fallbacks, statement by statement.                   *)
(***************************************************************************)
InitFallbacks ==
  /\ HandlerIdle
  /\ NameIdle
  /\ ParseIdle
  /\ rule \in Rules
  /\ entry = rule
  /\ fallbacks = {}
  /\ lowest_fallback = {}
  /\ res = << >>
  /\ scanned = 0
  /\ fpc = "scan"

\* one turn of `for keyframe in &self.keyframes`
ScanKeyframe ==
  /\ fpc = "scan"
  /\ scanned < Len(rule.keyframes)
  /\ fallbacks' =
       ScanDeclarations(rule.keyframes[scanned + 1].declarations.declarations, fallbacks)
  /\ scanned' = scanned + 1
  /\ UNCHANGED << rule, entry, lowest_fallback, res, fpc >>
  /\ UNCHANGED << handlerVars, parseVars, nameVars >>

\* `let lowest_fallback = fallbacks.lowest(); fallbacks.remove(lowest_fallback);`
TakeLowest ==
  /\ fpc = "scan"
  /\ scanned = Len(rule.keyframes)
  /\ lowest_fallback' = lowest(fallbacks)
  /\ fallbacks' = fallbacks \ lowest(fallbacks)
  /\ fpc' = "p3"
  /\ UNCHANGED << rule, entry, res, scanned >>
  /\ UNCHANGED << handlerVars, parseVars, nameVars >>

\* `if fallbacks.contains(P3) { res.push(self.get_fallback(P3)) }`
PushP3 ==
  /\ fpc = "p3"
  /\ res' = IF WantsP3(fallbacks) THEN Append(res, get_fallback(rule, "P3")) ELSE res
  /\ fpc' = "lab"
  /\ UNCHANGED << rule, entry, fallbacks, lowest_fallback, scanned >>
  /\ UNCHANGED << handlerVars, parseVars, nameVars >>

\* PushLAB with the original rewritten to the lowest kind before the clone
\* is built from it
PushLABAfterRewrite ==
  /\ fpc = "lab"
  /\ rule' =
       IF Rewrites(fallbacks, lowest_fallback)
       THEN [rule EXCEPT !.keyframes =
              [i \in 1..Len(rule.keyframes) |->
                RewriteKeyframe(rule.keyframes[i], CHOOSE k \in lowest_fallback : TRUE)]]
       ELSE rule
  /\ res' = IF WantsLAB(fallbacks, lowest_fallback)
            THEN Append(res, get_fallback(rule', "LAB"))
            ELSE res
  /\ fpc' = "rewrite"
  /\ UNCHANGED << entry, fallbacks, lowest_fallback, scanned >>
  /\ UNCHANGED << handlerVars, parseVars, nameVars >>

\* `if fallbacks.contains(LAB) || .. { res.push(self.get_fallback(LAB)) }`
PushLAB ==
  /\ fpc = "lab"
  /\ res' = IF WantsLAB(fallbacks, lowest_fallback)
            THEN Append(res, get_fallback(rule, "LAB"))
            ELSE res
  /\ fpc' = "rewrite"
  /\ UNCHANGED << rule, entry, fallbacks, lowest_fallback, scanned >>
  /\ UNCHANGED << handlerVars, parseVars, nameVars >>

\* `if !lowest_fallback.is_empty() { .. *value = value.get_fallback(lowest_fallback) .. }`
\* and the return of res
RewriteOriginal ==
  /\ fpc = "rewrite"
  /\ rule' =
       IF Rewrites(fallbacks, lowest_fallback)
       THEN [rule EXCEPT !.keyframes =
              [i \in 1..Len(rule.keyframes) |->
                RewriteKeyframe(rule.keyframes[i], CHOOSE k \in lowest_fallback : TRUE)]]
       ELSE rule
  /\ fpc' = "done"
  /\ UNCHANGED << entry, fallbacks, lowest_fallback, res, scanned >>
  /\ UNCHANGED << handlerVars, parseVars, nameVars >>

NextFallbacks ==
  \/ ScanKeyframe
  \/ TakeLowest
  \/ PushP3
  \/ PushLAB
  \/ RewriteOriginal

SpecFallbacks == InitFallbacks /\ [][NextFallbacks]_vars

(***************************************************************************)
(* Properties of get_fallbacks, stated on the rule as the call found it    *)
(* (entry), the rule as the call left it (rule) and the rules returned.    *)
(***************************************************************************)
\* get_fallbacks has returned
Returned == fpc = "done"

\* the declarations of keyframe i of the rule r
DeclsOf(r, i) == r.keyframes[i].declarations.declarations

\* the kinds the declarations of keyframe i of r need
KeyframeKinds(r, i) ==
  UNION {DeclsOf(r, i)[j].value.needs :
           j \in {k \in 1..Len(DeclsOf(r, i)) : HasTokens(DeclsOf(r, i)[k])}}

\* the kinds the values of the Custom and Unparsed declarations of the
\* keyframes of r need, taken together
RequiredKinds(r) == UNION {KeyframeKinds(r, i) : i \in 1..Len(r.keyframes)}

\* the conditions of the @supports rules returned, in order
Gates == [i \in 1..Len(res) |-> res[i].condition]

\* the gates the claim gives for a union of kinds: P3 when the union less
\* its lowest member holds P3, then LAB when the union less its lowest
\* member holds LAB or the lowest member exists and is not LAB
ExpectedGates(kinds) ==
  LET left == kinds \ lowest(kinds)
  IN (IF "P3" \in left THEN << "P3" >> ELSE << >>)
     \o (IF "LAB" \in left \/ (lowest(kinds) # {} /\ lowest(kinds) # {"LAB"})
         THEN << "LAB" >> ELSE << >>)

RewrittenTo(r0, r, kind) ==
  /\ r.name = r0.name
  /\ r.vendor_prefix = r0.vendor_prefix
  /\ r.loc = r0.loc
  /\ Len(r.keyframes) = Len(r0.keyframes)
  /\ \A i \in 1..Len(r0.keyframes) :
       /\ r.keyframes[i].selectors = r0.keyframes[i].selectors
       /\ r.keyframes[i].declarations.important_declarations =
            r0.keyframes[i].declarations.important_declarations
       /\ Len(DeclsOf(r, i)) = Len(DeclsOf(r0, i))
       /\ \A j \in 1..Len(DeclsOf(r0, i)) :
            LET d0 == DeclsOf(r0, i)[j]
                d == DeclsOf(r, i)[j]
            IN /\ d.prop = d0.prop
               /\ d.id = d0.id
               /\ d.value.needs = d0.value.needs
               /\ d.value.colored = d0.value.colored
               /\ d.value.form =
                    IF HasTokens(d0) /\ d0.value.colored THEN kind ELSE d0.value.form

\* C14 (as claimed): when the values of the rule need LAB and nothing else,
\* get_fallbacks returns one rule, gated on LAB, and leaves the original
\* rule as it was.
C14_LabOnlyOneCloneNoRewrite ==
  (Returned /\ RequiredKinds(entry) = {"LAB"}) =>
    (Gates = << "LAB" >> /\ rule = entry)

\* C14 (amended): when the values of the rule need LAB and nothing else,
\* get_fallbacks returns no rule, and the values of the Custom and Unparsed
\* declarations of the original rule are rewritten to LAB.
C14_LabOnlyRewriteNoClone ==
  (Returned /\ RequiredKinds(entry) = {"LAB"}) =>
    (res = << >> /\ RewrittenTo(entry, rule, "LAB") /\ rule # entry)

C14_Witness ==
  /\ Returned
  /\ RequiredKinds(entry) = {"LAB"}
  /\ res = << >>
  /\ \E i \in 1..Len(rule.keyframes) : \E j \in 1..Len(DeclsOf(rule, i)) :
       DeclsOf(rule, i)[j].value.form = "LAB"

LastFlushed == last.log # << >>

\* C16: after a longhand with value v and prefixes vp is handled, the slot
\* holds v; its prefixes are the union of its earlier prefixes and vp when
\* the slot was set and the call made no flush, and vp alone when the slot
\* was unset or the call made a flush; unless the call made a flush every
\* other slot is as the call found it.
C16_LonghandUpdatesOneSlot ==
  LastLonghand =>
    LET slot == SlotOf(last.op.prop)
    IN /\ self[slot].set
       /\ self[slot].val = last.op.val
       /\ self[slot].vp =
            IF LastSlot.set /\ ~LastFlushed
            THEN LastSlot.vp \cup last.op.vp
            ELSE last.op.vp
       /\ ~LastFlushed => \A s \in SlotNames \ {slot} : self[s] = last.pre[s]

C16_Witness ==
  /\ LastLonghand
  /\ LastSlot.set
  /\ ~LastFlushed
  /\ ~(last.op.vp \subseteq LastSlot.vp)
  /\ self[SlotOf(last.op.prop)].vp = LastSlot.vp \cup last.op.vp
  /\ \E s \in SlotNames \ {SlotOf(last.op.prop)} : self[s].set

\* the last call was given a property that is neither an animation
\* longhand, nor the shorthand, nor an Unparsed property of the family
LastUnrelated ==
  /\ last.op.prop \notin LonghandProps \cup {"Animation", FinalizeOp.prop, InitOp.prop}
  /\ ~(last.op.prop = "Unparsed" /\ is_animation_property(last.op.id))

\* C17: handle_property on a property that is neither an animation
\* longhand, nor the shorthand, nor an Unparsed property of the family
\* returns false, makes no flush and leaves the slots and the output as they
\* were; so a handler that gets such declarations between the others holds
\* the same slots and has written the same declarations, at every point, as
\* a handler that gets the others alone.
C17_UnrelatedLeavesHandlerAlone ==
  /\ LastUnrelated =>
       /\ ~last.ret
       /\ ~LastFlushed
       /\ self = last.pre
       /\ Len(dest) = last.n0
  /\ replaced = "no" => SameHandlers

C17_Witness ==
  /\ LastUnrelated
  /\ last.pre.has_any
  /\ last.prev \in LonghandProps
  /\ ~last.ret
  /\ self = last.pre
  /\ replaced = "no"
  /\ SameHandlers

\* the slots of seq follow one another as they do in order
InOrder(seq, order) ==
  \A i, j \in 1..Len(seq) :
    i < j =>
      \E m, n \in 1..Len(order) : m < n /\ order[m] = seq[i] /\ order[n] = seq[j]

\* the name is the first token written and every slot written adds one token
NameFirst ==
  /\ Len(out) = 1 + Len(shown)
  /\ out[1] = AnimationName_to_css(value.name)
  /\ \A k \in 1..Len(shown) : out[k + 1] = SlotToCss(value, shown[k])

\* C18 (as claimed): Animation::to_css writes the name first and then the
\* slots it writes in the order duration, timing-function, iteration-count,
\* direction, play-state, delay, fill-mode.
C18_WrittenInDeclaredOrder ==
  CssWritten =>
    /\ NameFirst
    /\ InOrder(shown, << "duration", "timing_function", "iteration_count",
                         "direction", "play_state", "delay", "fill_mode" >>)

\* C18 (amended): Animation::to_css writes the name first and then the
\* slots it writes in the order duration, timing-function, delay,
\* iteration-count, direction, fill-mode, play-state.
C18_WrittenInPrinterOrder ==
  CssWritten =>
    /\ NameFirst
    /\ InOrder(shown, << "duration", "timing_function", "delay", "iteration_count",
                         "direction", "fill_mode", "play_state" >>)

C18_Witness ==
  /\ CssWritten
  /\ value.name = Val("Ident", "foo")
  /\ shown = << "duration", "timing_function", "delay", "iteration_count",
                "direction", "fill_mode", "play_state" >>
  /\ Len(out) = 8
  /\ out[1] = Tok("ident", "foo")

\* C19 (as claimed): when Animation::to_css writes nothing after the name,
\* each of the seven other slots holds its default and the text of the name
\* is a value of none of their grammars; this for every name, the keyword
\* `none` (which carries no text of its own) included.
C19_NothingWrittenOnlyIfAllDefault ==
  (CssWritten /\ shown = << >>) =>
    \A slot \in OtherSlots :
      /\ value[slot] = DefaultOf(slot)
      /\ ~Collides(value, slot)

(***************************************************************************)
(* Properties of Animation::parse, stated on the turns of its loop.        *)
(***************************************************************************)
\* C20: a turn of the loop of Animation::parse gives the next token to the
\* name only when every other slot is filled already or does not take the
\* token; when some unfilled other slot takes it the name is left as it is
\* and one of those slots is filled.
C20_NameTriedLast ==
  [][(pc = "parse" /\ ~ps.done /\ ps' # ps) =>
       /\ (ps.filled.name = Unfilled /\ ps'.filled.name # Unfilled) =>
            \A slot \in OtherSlots : ~Takes(ps.filled, slot, ps.toks)
       /\ (\E slot \in OtherSlots : Takes(ps.filled, slot, ps.toks)) =>
            /\ ps'.filled.name = ps.filled.name
            /\ \E slot \in OtherSlots :
                 /\ Takes(ps.filled, slot, ps.toks)
                 /\ ps'.filled[slot] = SlotParse(slot, Head(ps.toks))]_vars

C20_Witness ==
  /\ pc = "parse"
  /\ ps.filled.iteration_count = Val("Number", "3")
  /\ ps.filled.name = Val("Ident", "infinite")

\* the slots of an Animation
AllSlots == {ParseOrder[k] : k \in 1..Len(ParseOrder)}

\* the slots the turn from ps to its successor assigns
Assigned(before, after) == {slot \in AllSlots : after.filled[slot] # before.filled[slot]}

\* C21: in a turn of the loop of Animation::parse a filled slot is never
\* assigned again; at most one slot is assigned, it was unfilled, it takes
\* the value of the next token, and the input moves past that token; a time
\* goes to the duration when the duration is unfilled and to the delay when
\* only the delay is, so that of two times the first is the duration and
\* the second the delay; a turn in which no slot takes the token leaves the
\* input where it was.
C21_SlotsAssignedOnce ==
  [][(pc = "parse" /\ ~ps.done) =>
       /\ \A slot \in AllSlots :
            ps.filled[slot] # Unfilled => ps'.filled[slot] = ps.filled[slot]
       /\ \A slot \in Assigned(ps, ps') :
            /\ Assigned(ps, ps') = {slot}
            /\ ps.toks # << >>
            /\ ps'.filled[slot] = SlotParse(slot, Head(ps.toks))
            /\ ps'.filled[slot] # Err
            /\ ps'.toks = Tail(ps.toks)
       /\ Assigned(ps, ps') = {} => ps'.toks = ps.toks
       /\ (ps.toks # << >> /\ Head(ps.toks).k = "time") =>
            Assigned(ps, ps') =
              IF ps.filled.duration = Unfilled THEN {"duration"}
              ELSE IF ps.filled.delay = Unfilled THEN {"delay"}
              ELSE {}]_vars

C21_Witness ==
  /\ pc = "parse"
  /\ Len(text) = 3
  /\ text[1] = Tok("time", "0s")
  /\ text[2] = Tok("time", "1s")
  /\ text[3] = Tok("time", "1s")
  /\ ps.filled.duration = Val("Seconds", "0")
  /\ ps.filled.delay = Val("Seconds", "1")
  /\ ps.toks = << Tok("time", "1s") >>
  /\ ps.done

\* Animation::parse has returned its value
ParseReturned == pc \in {"parsed", "printed", "reparsed"}

\* the defaults the claim declares: name none, duration 0s, timing-function
\* ease, iteration-count 1, direction normal, play-state running, delay 0s,
\* fill-mode none
DeclaredDefaults ==
  [name |-> Val("None", ""), duration |-> Val("Seconds", "0"),
   timing_function |-> Val("Ease", ""), iteration_count |-> Val("Number", "1"),
   direction |-> Val("Normal", ""), play_state |-> Val("Running", ""),
   delay |-> Val("Seconds", "0"), fill_mode |-> Val("None", "")]

\* C22: in the value Animation::parse returns every slot that no token
\* filled holds its declared default, and every slot a token filled holds
\* what the token gave it.
C22_UnfilledSlotsTakeDefaults ==
  ParseReturned =>
    \A slot \in AllSlots :
      value[slot] =
        IF ps.filled[slot] = Unfilled THEN DeclaredDefaults[slot] ELSE ps.filled[slot]

C22_Witness ==
  /\ pc = "parsed"
  /\ text = << Tok("ident", "foo") >>
  /\ ps.filled.name = Val("Ident", "foo")
  /\ \A slot \in OtherSlots : ps.filled[slot] = Unfilled
  /\ value = [DeclaredDefaults EXCEPT !.name = Val("Ident", "foo")]

\* the slots a token of the text filled
FilledSlots == {slot \in AllSlots : ps.filled[slot] # Unfilled}

\* some token of the text filled no slot: when its turn came no unfilled
\* slot took it
TokenRejected == Cardinality(FilledSlots) < Len(text)

\* C23: when a token of the shorthand text is taken by no unfilled slot, the
\* declaration does not reach the handler as an Animation made of the slots
\* filled so far: it reaches it as an Unparsed `animation` property that
\* carries the text, is written to the output, and leaves every slot of the
\* handler unset.
C23_RejectedTokenGivesUnparsed ==
  (pc = "declared" /\ TokenRejected) =>
    /\ input = << Unparsed("Animation", {"none"}, text) >>
    /\ dest = input
    /\ \A s \in SlotNames : ~self[s].set

C23_Witness ==
  /\ pc = "declared"
  /\ text = << Tok("ident", "foo"), Tok("dimension", "10px") >>
  /\ ps.filled.name = Val("Ident", "foo")
  /\ ps.toks = << Tok("dimension", "10px") >>
  /\ dest = << Unparsed("Animation", {"none"}, text) >>

\* the two lists of a DeclarationBlock
BlockLists == {"important_declarations", "declarations"}

\* the declaration d is the declaration d0 with, when d0 is Custom or
\* Unparsed, its colours in the form of kind, and is d0 otherwise
ConvertedFrom(d0, d, kind) ==
  /\ d.prop = d0.prop
  /\ d.id = d0.id
  /\ d.value.needs = d0.value.needs
  /\ d.value.colored = d0.value.colored
  /\ d.value.form = IF HasTokens(d0) /\ d0.value.colored THEN kind ELSE d0.value.form

\* the rule r is a complete copy of the rule r0 with the values of its
\* Custom and Unparsed declarations converted to kind
CompleteCopy(r0, r, kind) ==
  /\ r.name = r0.name
  /\ r.vendor_prefix = r0.vendor_prefix
  /\ Len(r.keyframes) = Len(r0.keyframes)
  /\ \A i \in 1..Len(r0.keyframes) :
       /\ r.keyframes[i].selectors = r0.keyframes[i].selectors
       /\ \A list \in BlockLists :
            LET ds0 == r0.keyframes[i].declarations[list]
                ds == r.keyframes[i].declarations[list]
            IN /\ Len(ds) = Len(ds0)
               /\ \A j \in 1..Len(ds0) : ConvertedFrom(ds0[j], ds[j], kind)

\* the kinds every declaration of every keyframe block of r needs, the
\* important ones included
AllRequiredKinds(r) ==
  {k \in ColorFallbackKind :
     \E i \in 1..Len(r.keyframes) : \E list \in BlockLists :
       \E j \in 1..Len(r.keyframes[i].declarations[list]) :
         k \in NeededBy(r.keyframes[i].declarations[list][j])}

\* C24: every rule get_fallbacks returns holds a complete copy of the rule
\* as the call found it (name, prefixes, keyframes, selectors, and every
\* declaration of both lists of every block in order, Custom and Unparsed
\* values converted to the kind of the gate, the rest unchanged), and the
\* kinds the scan collected are those of every declaration of every block.
C24_ClonesAreComplete ==
  Returned =>
    /\ \A n \in 1..Len(res) :
         /\ Len(res[n].rules) = 1
         /\ \E kind \in ColorFallbackKind :
              /\ res[n].condition = supports_condition(kind)
              /\ CompleteCopy(entry, res[n].rules[1], kind)
    /\ fallbacks \cup lowest_fallback = AllRequiredKinds(entry)

\* get_fallbacks has not reached the rewrite of the original rule
BeforeRewrite == fpc \in {"scan", "p3", "lab", "rewrite"}

\* the kind of the gate of the n-th rule returned
GateKind(n) == CHOOSE kind \in ColorFallbackKind : supports_condition(kind) = res[n].condition

\* C25: while get_fallbacks scans and builds the P3 and the LAB clone, the
\* original rule stays as the call found it, so that it is rewritten only
\* after both; and the values of the Custom and Unparsed declarations of
\* every clone are those of the rule as the call found it, converted to the
\* kind of the clone's gate, never values converted from the rewritten rule.
C25_ClonesBuiltBeforeRewrite ==
  /\ BeforeRewrite => rule = entry
  /\ \A n \in 1..Len(res) :
       \A i \in 1..Len(entry.keyframes) :
         /\ Len(DeclsOf(res[n].rules[1], i)) = Len(DeclsOf(entry, i))
         /\ \A j \in 1..Len(DeclsOf(entry, i)) :
              ConvertedFrom(DeclsOf(entry, i)[j], DeclsOf(res[n].rules[1], i)[j], GateKind(n))

C25_Witness ==
  /\ Returned
  /\ Gates = << "P3", "LAB" >>
  /\ lowest_fallback = {"RGB"}
  /\ rule # entry
  /\ \E i \in 1..Len(entry.keyframes) : \E j \in 1..Len(DeclsOf(entry, i)) :
       /\ DeclsOf(entry, i)[j].value.form = "source"
       /\ DeclsOf(rule, i)[j].value.form = "RGB"
       /\ DeclsOf(res[1].rules[1], i)[j].value.form = "P3"
       /\ DeclsOf(res[2].rules[1], i)[j].value.form = "LAB"

(***************************************************************************)
(* AnimationName::parse and AnimationName::to_css on their own, as the     *)
(* animation-name longhand uses them: one token is parsed, the name is     *)
(* written, and what was written is parsed again.                          *)
(***************************************************************************)
InitName ==
  /\ HandlerIdle
  /\ ParseIdle
  /\ FallbacksIdle
  /\ ntoken \in NameTokens
  /\ nvalue = Err
  /\ nout = ntoken
  /\ nback = Err
  /\ npc = "given"

\* AnimationName::parse on the token
NameParse ==
  /\ npc = "given"
  /\ nvalue' = AnimationName_parse(ntoken)
  /\ npc' = "parsed"
  /\ UNCHANGED << ntoken, nout, nback >>
  /\ UNCHANGED << handlerVars, parseVars, fallbackVars >>

\* AnimationName::to_css on the name that was parsed
NameToCss ==
  /\ npc = "parsed"
  /\ nvalue # Err
  /\ nout' = AnimationName_to_css(nvalue)
  /\ npc' = "written"
  /\ UNCHANGED << ntoken, nvalue, nback >>
  /\ UNCHANGED << handlerVars, parseVars, fallbackVars >>

\* AnimationName::parse on what was written
NameReparse ==
  /\ npc = "written"
  /\ nback' = AnimationName_parse(nout)
  /\ npc' = "reparsed"
  /\ UNCHANGED << ntoken, nvalue, nout >>
  /\ UNCHANGED << handlerVars, parseVars, fallbackVars >>

NextName ==
  \/ NameParse
  \/ NameToCss
  \/ NameReparse

SpecName == InitName /\ [][NextName]_vars

\* the texts that are `none` in some ASCII case
NoneTexts == {"none", "NONE", "None"}

\* the texts that are `none` or a CSS-wide keyword in some ASCII case
KeywordTexts ==
  NoneTexts \cup {"initial", "Initial", "inherit", "Inherit", "unset", "default",
                  "revert", "revert-layer", "REVERT-LAYER"}

\* C26: a string name whose text is `none` or a CSS-wide keyword in any
\* ASCII case is written as a quoted string with that text, and what was
\* written parses back to the same string name; an identifier with such a
\* text is rejected by AnimationName::parse, except that `none` gives the
\* None keyword.
C26_KeywordNameRoundTrip ==
  /\ (npc \in {"written", "reparsed"} /\ nvalue.t = "Custom" /\ nvalue.s \in KeywordTexts) =>
       /\ nout = Tok("string", nvalue.s)
       /\ npc = "reparsed" => nback = nvalue
  /\ (npc \in {"parsed", "written", "reparsed"} /\ ntoken.k = "ident"
        /\ ntoken.s \in KeywordTexts) =>
       nvalue = IF ntoken.s \in NoneTexts THEN Val("None", "") ELSE Err

C26_Witness ==
  /\ npc = "reparsed"
  /\ ntoken = Tok("string", "Initial")
  /\ nvalue = Val("Custom", "Initial")
  /\ nout = Tok("string", "Initial")
  /\ nback = Val("Custom", "Initial")

====
